---- MODULE Spec2Model ----
(***************************************************************************)
(* Model of Custom_Script/03_Forecasting_Pipeline.ipynb: the notebook's    *)
(* cells executed in order against the machine-learning platform, the      *)
(* platform's execution of the submitted two-step pipeline, the local      *)
(* download directory, and the dataframe code of section 7.                *)
(*                                                                         *)
(* Three specifications share the definitions:                             *)
(*   Spec          the notebook executions and the platform's runs         *)
(*   SpecDownload  sequences of download_predictions calls on one          *)
(*                 target_dir, for finished runs                           *)
(*   SpecFrame     read_csv and the two groupby/unstack tables, over the   *)
(*                 files of the parallel_run_step.txt format               *)
(***************************************************************************)
EXTENDS Integers, Sequences, FiniteSets, TLC

VARIABLES
    pc,          \* the next cell of the notebook, "done" or "failed"
    nb,          \* the kernel's namespace: name -> value
    exec,        \* number of the notebook execution (kernel restarts + 1)
    submits,     \* experiment.submit calls of this execution
    datastores,  \* platform: registered datastores, name -> container/account
    runs,        \* platform: the submitted pipeline runs, in order
    blobs,       \* platform: blob storage, location -> content
    localDirs,   \* local file system: entries of <target_dir>/azureml
    clock,       \* local file system time
    dlArg,       \* the run passed to the last download_predictions call
    dlState,     \* that run's state when download_predictions was called
    file,        \* parallel_run_step.txt: a sequence of lines
    df,          \* the dataframe of cell 7.2
    week,        \* the table behind 'Total Predictions by Brand'
    brands       \* the table behind 'Predictions for Store 1001'

vars == <<pc, nb, exec, submits, datastores, runs, blobs, localDirs, clock,
          dlArg, dlState, file, df, week, brands>>

kernelVars == <<pc, nb, exec, submits>>
platformVars == <<datastores, runs, blobs>>
localVars == <<localDirs, clock, dlArg, dlState>>
frameVars == <<file, df, week, brands>>

NoVal == "NoVal"
Empty == <<>>

(* ------------------------------ bounds -------------------------------- *)

MaxExecutions == 2
MaxCalls == 5
MaxRuns == 3
MaxLines == 3

(* -------------------------- the platform ------------------------------ *)

\* A workspace created by 00_Setup_AML_Workspace has the blob store
\* 'workspaceblobstore' as its default datastore.
DefaultDatastore == "workspaceblobstore"

InitDatastores ==
    DefaultDatastore :> [container |-> "azureml-blobstore", account |-> "wsaccount"]

Defined(n) == n \in DOMAIN nb

Bind(n, v) == [x \in DOMAIN nb \cup {n} |-> IF x = n THEN v ELSE nb[x]]

Bind2(n, v, m, w) ==
    [x \in DOMAIN nb \cup {n, m} |-> IF x = n THEN v ELSE IF x = m THEN w ELSE nb[x]]

(* --------------------- the notebook's configuration ------------------- *)

process_count_per_node == 8
node_count == 5
timeout == 180

Tags ==
    [node_count |-> node_count,
     process_count_per_node |-> process_count_per_node,
     timeout |-> timeout]

Item(kind, name, datastore) == [kind |-> kind, name |-> name, datastore |-> datastore]

NoItem == Item("None", "", "")

SmallDatasetInput == Item("Dataset", "forecast_10_models", "")

ParallelRunConfig(forecast_env, compute) ==
    [source_directory |-> "./scripts",
     entry_script |-> "forecast.py",
     mini_batch_size |-> "1",
     run_invocation_timeout |-> timeout,
     error_threshold |-> 10,
     output_action |-> "append_row",
     environment |-> forecast_env,
     process_count_per_node |-> process_count_per_node,
     compute_target |-> compute,
     node_count |-> node_count]

\* PipelineData(name='forecasting_output', datastore=dstore)
PipelineData(dstore) == Item("PipelineData", "forecasting_output", dstore)

ParallelRunStep(config, output_dir) ==
    [name |-> "many-models-forecasting",
     script |-> config.entry_script,
     config |-> {config},
     inputs |-> {SmallDatasetInput},
     output |-> output_dir,
     allow_reuse |-> FALSE,
     src |-> NoItem,
     dst |-> NoItem]

\* Faulty variant: the 'predictions' datastore is registered on dstore's own container.
RegisterPredictionsSameContainer(stores, dstore) ==
    [x \in DOMAIN stores \cup {"predictions"} |->
        IF x = "predictions"
        THEN [container |-> stores[dstore].container, account |-> stores[dstore].account]
        ELSE stores[x]]

\* Datastore.register_azure_blob_container(datastore_name="predictions",
\*     container_name="predictions", account_name=dstore.account_name, ...)
RegisterPredictions(stores, dstore) ==
    [x \in DOMAIN stores \cup {"predictions"} |->
        IF x = "predictions"
        THEN [container |-> "predictions", account |-> stores[dstore].account]
        ELSE stores[x]]

DataReference(output_dstore) == Item("DataReference", "", output_dstore)

\* Faulty variant: the step is given the location of the output as an argument only,
\* not as an input.
UploadPredictionsStepNoInput(output_dref, output_dir) ==
    [name |-> "copy_predictions",
     script |-> "copy_predictions.py",
     config |-> {},
     inputs |-> {output_dref},
     output |-> NoItem,
     allow_reuse |-> FALSE,
     src |-> output_dir,
     dst |-> output_dref]

UploadPredictionsStep(output_dref, output_dir) ==
    [name |-> "copy_predictions",
     script |-> "copy_predictions.py",
     config |-> {},
     inputs |-> {output_dref, output_dir},
     output |-> NoItem,
     allow_reuse |-> FALSE,
     src |-> output_dir,
     dst |-> output_dref]

\* Pipeline(workspace=ws, steps=[parallel_run_step, upload_predictions_step])
Pipeline(parallel_run_step, upload_predictions_step) ==
    <<parallel_run_step, upload_predictions_step>>

(* ------------------- the platform's pipeline runs --------------------- *)

Steps(r) == 1 .. Len(runs[r].steps)

NewRun(pipeline, tags) ==
    [steps |-> pipeline,
     tags |-> tags,
     state |-> [i \in 1 .. Len(pipeline) |-> "NotStarted"]]

\* The PipelineData d has been written by the step of run r that outputs it.
Produced(r, d) ==
    \E i \in Steps(r) : runs[r].steps[i].output = d /\ runs[r].state[i] = "Finished"

\* A step is started once every PipelineData among its inputs is produced.
Ready(r, i) ==
    \A d \in runs[r].steps[i].inputs : d.kind = "PipelineData" => Produced(r, d)

Container(item) == datastores[item.datastore].container

\* Where the platform keeps a PipelineData of run r.
OutputLoc(r, item) == [container |-> Container(item), dir |-> item.name, run |-> r]

\* Where copy_predictions.py writes the CSV file of run r.
CopyLoc(r, item) == [container |-> Container(item), dir |-> "csv", run |-> r]

Put(loc, content) ==
    [l \in DOMAIN blobs \cup {loc} |-> IF l = loc THEN content ELSE blobs[l]]

Content(loc) == IF loc \in DOMAIN blobs THEN blobs[loc] ELSE "none"

\* scripts/copy_predictions.py --parallel_run_step_output src --output_dir dst
CopyPredictions(r, step) ==
    IF OutputLoc(r, step.src) \in DOMAIN blobs
    THEN Put(CopyLoc(r, step.dst), blobs[OutputLoc(r, step.src)])
    ELSE blobs

StartStep(r, i) ==
    /\ runs[r].state[i] = "NotStarted"
    /\ \A j \in Steps(r) : runs[r].state[j] # "Failed"
    /\ Ready(r, i)
    /\ runs' = [runs EXCEPT ![r].state[i] = "Running"]
    /\ UNCHANGED <<datastores, blobs, kernelVars, localVars, frameVars>>

\* output_action='append_row': the rows of a finished mini batch are appended
\* to the step's output while the step is running.
AppendRow(r, i) ==
    /\ runs[r].state[i] = "Running"
    /\ runs[r].steps[i].output # NoItem
    /\ Content(OutputLoc(r, runs[r].steps[i].output)) = "none"
    /\ blobs' = Put(OutputLoc(r, runs[r].steps[i].output), "partial")
    /\ UNCHANGED <<datastores, runs, kernelVars, localVars, frameVars>>

FinishStep(r, i) ==
    /\ runs[r].state[i] = "Running"
    /\ runs' = [runs EXCEPT ![r].state[i] = "Finished"]
    /\ blobs' = IF runs[r].steps[i].script = "copy_predictions.py"
                THEN CopyPredictions(r, runs[r].steps[i])
                ELSE IF runs[r].steps[i].output # NoItem
                THEN Put(OutputLoc(r, runs[r].steps[i].output), "complete")
                ELSE blobs
    /\ UNCHANGED <<datastores, kernelVars, localVars, frameVars>>

FailStep(r, i) ==
    /\ runs[r].state[i] = "Running"
    /\ runs' = [runs EXCEPT ![r].state[i] = "Failed"]
    /\ UNCHANGED <<datastores, blobs, kernelVars, localVars, frameVars>>

RunFinished(r) == \A i \in Steps(r) : runs[r].state[i] = "Finished"

\* The state of run r as a caller of the run's API sees it.
RunState(r) ==
    IF RunFinished(r) THEN "Finished"
    ELSE IF \E i \in Steps(r) : runs[r].state[i] = "Failed" THEN "Failed"
    ELSE IF \A i \in Steps(r) : runs[r].state[i] = "NotStarted" THEN "NotStarted"
    ELSE "Running"

(* ----------------------- download_predictions ------------------------- *)

\* run.find_step_run("many-models-forecasting")[0]
FindStepRun(r, name) == CHOOSE i \in Steps(r) : runs[r].steps[i].name = name

\* stitch_run.get_output_data('forecasting_output')
GetOutputData(r, i, name) ==
    IF runs[r].steps[i].output.name = name
    THEN OutputLoc(r, runs[r].steps[i].output)
    ELSE [container |-> "", dir |-> name, run |-> r]

\* Faulty variant: target_dir is emptied before the download.
PortDownloadClean(dirs, now, r, content) ==
    IF content = "none" THEN Empty
    ELSE [e \in {r} |-> [mtime |-> now, content |-> content]]

\* port_data.download(target_dir, overwrite=True): the blobs of the port are
\* written under target_dir/azureml/<run>/forecasting_output.  A directory that
\* exists keeps its modification time; one that is created gets the time now.
PortDownload(dirs, now, r, content) ==
    IF content = "none" THEN dirs
    ELSE IF r \in DOMAIN dirs THEN [dirs EXCEPT ![r].content = content]
    ELSE [e \in DOMAIN dirs \cup {r} |->
            IF e = r THEN [mtime |-> now, content |-> content] ELSE dirs[e]]

\* sorted(Path(target_dir/azureml).iterdir(), key=os.path.getmtime)[-1]
Latest(dirs) ==
    CHOOSE e \in DOMAIN dirs : \A o \in DOMAIN dirs : dirs[o].mtime <= dirs[e].mtime

PathOf(e) == <<"output", "azureml", e, "forecasting_output">>

download_predictions(r, next) ==
    LET i == FindStepRun(r, "many-models-forecasting")
        port_data == GetOutputData(r, i, "forecasting_output")
        downloaded == PortDownload(localDirs, clock, r, Content(port_data))
    IN  /\ dlArg' = r
        /\ dlState' = RunState(r)
        /\ clock' = clock + 1
        /\ \/ \* the step run or its output does not exist yet: the call raises
              /\ runs[r].state[i] # "Finished"
              /\ pc' = "failed"
              /\ UNCHANGED <<nb, localDirs>>
           \/ \* nothing under target_dir/azureml: os.listdir raises
              /\ DOMAIN downloaded = {}
              /\ pc' = "failed"
              /\ UNCHANGED <<nb, localDirs>>
           \/ /\ DOMAIN downloaded # {}
              /\ localDirs' = downloaded
              /\ nb' = Bind("file_path", PathOf(Latest(downloaded)))
              /\ pc' = next
        /\ UNCHANGED <<exec, submits, platformVars, frameVars>>

(* ------------------------ the notebook's cells ------------------------ *)

Cell(at, next, bound) ==
    /\ pc = at
    /\ pc' = next
    /\ nb' = bound
    /\ UNCHANGED <<exec, submits, runs, blobs, localVars, frameVars>>

Cell10_Connect ==
    /\ Cell("1.0", "2.0", Bind2("ws", "workspace", "dstore", DefaultDatastore))
    /\ UNCHANGED datastores

Cell20_Experiment ==
    /\ Cell("2.0", "3.0", Bind("experiment", "forecasting_pipeline"))
    /\ UNCHANGED datastores

Cell30_Dataset ==
    /\ Cell("3.0", "4.1", Bind("small_dataset_input", SmallDatasetInput))
    /\ UNCHANGED datastores

Cell41_Environment ==
    /\ Cell("4.1", "4.2", Bind("forecast_env", "many_models_environment"))
    /\ UNCHANGED datastores

Cell42_Compute ==
    /\ Cell("4.2", "4.3", Bind("compute", "cpucluster"))
    /\ UNCHANGED datastores

Cell43_Config ==
    /\ pc = "4.3"
    /\ Cell("4.3", "4.4",
            Bind2("tags", Tags, "parallel_run_config",
                  ParallelRunConfig(nb["forecast_env"], nb["compute"])))
    /\ UNCHANGED datastores

Cell44_ParallelRunStep ==
    /\ pc = "4.4"
    /\ LET output_dir == PipelineData(nb["dstore"])
       IN  Cell("4.4", "5.1",
                Bind2("output_dir", output_dir, "parallel_run_step",
                      ParallelRunStep(nb["parallel_run_config"], output_dir)))
    /\ UNCHANGED datastores

Cell51_Datastore ==
    /\ pc = "5.1"
    /\ datastores' = RegisterPredictions(datastores, nb["dstore"])
    /\ Cell("5.1", "5.2",
            Bind2("output_dstore", "predictions",
                  "output_dref", DataReference("predictions")))

Cell52_CopyStep ==
    /\ pc = "5.2"
    /\ Cell("5.2", "6.0",
            Bind("upload_predictions_step",
                 UploadPredictionsStep(nb["output_dref"], nb["output_dir"])))
    /\ UNCHANGED datastores

\* Faulty variant: the submission is repeated.
Cell60_SubmitAgain ==
    /\ pc = "6.0"
    /\ submits < 2
    /\ LET pipeline == Pipeline(nb["parallel_run_step"], nb["upload_predictions_step"])
       IN  /\ runs' = Append(runs, NewRun(pipeline, nb["tags"]))
           /\ nb' = Bind2("pipeline", pipeline, "run", Len(runs) + 1)
    /\ submits' = submits + 1
    /\ pc' \in {"6.0", "7.1"}
    /\ UNCHANGED <<exec, datastores, blobs, localVars, frameVars>>

\* run = experiment.submit(pipeline, tags=tags): returns once the run is
\* created; the platform then executes it on its own.
Cell60_Submit ==
    /\ pc = "6.0"
    /\ LET pipeline == Pipeline(nb["parallel_run_step"], nb["upload_predictions_step"])
       IN  /\ runs' = Append(runs, NewRun(pipeline, nb["tags"]))
           /\ nb' = Bind2("pipeline", pipeline, "run", Len(runs) + 1)
    /\ submits' = submits + 1
    /\ pc' = "7.1"
    /\ UNCHANGED <<exec, datastores, blobs, localVars, frameVars>>

\* file_path = download_predictions(run, 'output')
Cell71_Download ==
    /\ pc = "7.1"
    /\ download_predictions(nb["run"], "7.2")

\* Cells 7.2 and 7.3 build and plot the dataframe (see SpecFrame); they change
\* neither the platform nor the local directory.
Cell72_Dataframe ==
    /\ pc = "7.2"
    /\ pc' = "done"
    /\ UNCHANGED <<nb, exec, submits, platformVars, localVars, frameVars>>

\* A call into the platform raises (no workspace config, dataset or compute
\* target not found, ...): no cell has a try/except, so the execution stops.
PlatformCells == {"1.0", "3.0", "4.2", "5.1", "6.0"}

CellRaises ==
    /\ pc \in PlatformCells
    /\ pc' = "failed"
    /\ UNCHANGED <<nb, exec, submits, platformVars, localVars, frameVars>>

\* The notebook is executed again in a fresh kernel.
Restart ==
    /\ pc \in {"done", "failed"}
    /\ exec < MaxExecutions
    /\ pc' = "1.0"
    /\ nb' = Empty
    /\ exec' = exec + 1
    /\ submits' = 0
    /\ UNCHANGED <<platformVars, localVars, frameVars>>

(* ------------------------------- Spec --------------------------------- *)

Init ==
    /\ pc = "1.0"
    /\ nb = Empty
    /\ exec = 1
    /\ submits = 0
    /\ datastores = InitDatastores
    /\ runs = <<>>
    /\ blobs = Empty
    /\ localDirs = Empty
    /\ clock = 0
    /\ dlArg = 0
    /\ dlState = NoVal
    /\ file = <<>>
    /\ df = NoVal
    /\ week = NoVal
    /\ brands = NoVal

Platform ==
    \E r \in 1 .. Len(runs) : \E i \in Steps(r) :
        \/ StartStep(r, i)
        \/ AppendRow(r, i)
        \/ FinishStep(r, i)
        \/ FailStep(r, i)

Next ==
    \/ Cell10_Connect
    \/ Cell20_Experiment
    \/ Cell30_Dataset
    \/ Cell41_Environment
    \/ Cell42_Compute
    \/ Cell43_Config
    \/ Cell44_ParallelRunStep
    \/ Cell51_Datastore
    \/ Cell52_CopyStep
    \/ Cell60_Submit
    \/ Cell71_Download
    \/ Cell72_Dataframe
    \/ CellRaises
    \/ Restart
    \/ Platform

Spec == Init /\ [][Next]_vars

(* --------------------------- SpecDownload ----------------------------- *)

\* The pipeline the notebook submits.
NotebookPipeline ==
    LET output_dir == PipelineData(DefaultDatastore)
    IN  Pipeline(ParallelRunStep(ParallelRunConfig("many_models_environment", "cpucluster"),
                                 output_dir),
                 UploadPredictionsStep(DataReference("predictions"), output_dir))

FinishedRun ==
    [NewRun(NotebookPipeline, Tags) EXCEPT
        !.state = [i \in 1 .. Len(NotebookPipeline) |-> "Finished"]]

\* MaxRuns executions of the notebook have run to the end of their pipelines;
\* nothing has been downloaded yet.
InitDownload ==
    /\ pc = "7.1"
    /\ nb = Empty
    /\ exec = 1
    /\ submits = 0
    /\ datastores = RegisterPredictions(InitDatastores, DefaultDatastore)
    /\ runs = [r \in 1 .. MaxRuns |-> FinishedRun]
    /\ blobs = [l \in {OutputLoc(r, PipelineData(DefaultDatastore)) : r \in 1 .. MaxRuns}
                      \cup {CopyLoc(r, DataReference("predictions")) : r \in 1 .. MaxRuns}
                |-> "complete"]
    /\ localDirs = Empty
    /\ clock = 0
    /\ dlArg = 0
    /\ dlState = NoVal
    /\ file = <<>>
    /\ df = NoVal
    /\ week = NoVal
    /\ brands = NoVal

\* download_predictions(r, 'output') for any of the runs, any number of times.
DownloadCall ==
    \E r \in 1 .. Len(runs) :
        /\ pc = "7.1"
        /\ clock < MaxCalls
        /\ download_predictions(r, "7.1")

SpecDownload == InitDownload /\ [][DownloadCall]_vars

(* ------------------- cells 7.2 and 7.3: the dataframe ----------------- *)

\* The text of parallel_run_step.txt: a line is a sequence of tokens, a field
\* being a token other than the separator " ".
WeekTexts == {"1992-10-01", "1992-10-08", "1992-10-08T12:00"}
PredictionTexts == {"-1", "2"}
StoreTexts == {"Store1001", "Store1002"}
BrandTexts == {"dominicks", "tropicana"}

\* The lines of the format: WeekStarting Predictions Store Brand.
FormatLines ==
    {<<w, " ", p, " ", s, " ", b>> :
        w \in WeekTexts, p \in PredictionTexts, s \in StoreTexts, b \in BrandTexts}

Files == UNION {[1 .. n -> FormatLines] : n \in 0 .. MaxLines}

\* The fields of a line of text, split at every sep.
RECURSIVE SplitFrom(_, _, _, _)
SplitFrom(line, sep, k, field) ==
    IF k > Len(line) THEN <<field>>
    ELSE IF line[k] = sep THEN <<field>> \o SplitFrom(line, sep, k + 1, "")
    ELSE SplitFrom(line, sep, k + 1, line[k])

Split(line, sep) == SplitFrom(line, sep, 1, "")

\* pd.read_csv(path, sep=" ", header=None): no line is taken as the header, so
\* the first line is row 0; the numeric column is parsed to numbers.
ToNumber(text) ==
    CASE text = "-1" -> -1
      [] text = "2" -> 2
      [] OTHER -> 0

\* Faulty variant: header inferred, the first line is taken as the column names.
DataLinesHeader(lines) == Tail(lines)

\* header=None: every line is a row
DataLines(lines) == lines

ReadCsv(lines, sep) ==
    [i \in 1 .. Len(DataLines(lines)) |-> Split(DataLines(lines)[i], sep)]

\* df.columns = ['WeekStarting', 'Predictions', 'Store', 'Brand']
SetColumns(rows) ==
    [i \in 1 .. Len(rows) |->
        [WeekStarting |-> rows[i][1],
         Predictions |-> ToNumber(rows[i][2]),
         Store |-> rows[i][3],
         Brand |-> rows[i][4]]]

\* pd.to_datetime(text): the timestamp a text denotes
ToDatetime(text) ==
    CASE text = "1992-10-01" -> [date |-> 19921001, hour |-> 0]
      [] text = "1992-10-08" -> [date |-> 19921008, hour |-> 0]
      [] text = "1992-10-08T12:00" -> [date |-> 19921008, hour |-> 12]
      [] OTHER -> [date |-> 0, hour |-> 0]

\* Timestamp.date()
Date(ts) == ts.date

\* df['WeekStarting'] = [d.date() for d in pd.to_datetime(df['WeekStarting'])]
ConvertWeekStarting(frame) ==
    [i \in 1 .. Len(frame) |->
        [frame[i] EXCEPT !.WeekStarting = Date(ToDatetime(frame[i].WeekStarting))]]

Cell72_ReadCsv ==
    /\ pc = "7.2"
    /\ IF Len(file) = 0
       THEN \* EmptyDataError: no columns to parse from file
            /\ pc' = "failed"
            /\ df' = df
       ELSE /\ pc' = "7.3"
            /\ df' = ConvertWeekStarting(SetColumns(ReadCsv(file, " ")))
    /\ UNCHANGED <<nb, exec, submits, platformVars, localVars, file, week, brands>>

\* frame.groupby(['WeekStarting', 'Brand'])
GroupKeys(frame) == {<<frame[i].WeekStarting, frame[i].Brand>> : i \in 1 .. Len(frame)}

RECURSIVE SumFrom(_, _, _)
SumFrom(frame, key, k) ==
    IF k > Len(frame) THEN 0
    ELSE (IF <<frame[k].WeekStarting, frame[k].Brand>> = key
          THEN frame[k].Predictions ELSE 0)
         + SumFrom(frame, key, k + 1)

\* grouped['Predictions'].sum(): one value per group that has rows
GroupSum(frame) == [key \in GroupKeys(frame) |-> SumFrom(frame, key, 1)]

NaN == [nan |-> TRUE, v |-> 0]
Value(n) == [nan |-> FALSE, v |-> n]

\* series.unstack(level=1): the second key becomes the columns; a combination
\* of the two keys that has no group is filled with NaN.
Unstack(series) ==
    LET index == {key[1] : key \in DOMAIN series}
        columns == {key[2] : key \in DOMAIN series}
    IN  [index |-> index,
         columns |-> columns,
         cell |-> [key \in index \X columns |->
                     IF key \in DOMAIN series THEN Value(series[key]) ELSE NaN]]

\* week = pd.DataFrame(df.groupby([...])['Predictions'].sum().unstack(level=1))
Cell73_Week ==
    /\ pc = "7.3"
    /\ week' = Unstack(GroupSum(df))
    /\ pc' = "7.3s"
    /\ UNCHANGED <<nb, exec, submits, platformVars, localVars, file, df, brands>>

\* df[df['Store'] == store]
store == "Store1001"

\* Faulty variant: no row is filtered out.
SelectStoreAll(frame, s) == frame

RECURSIVE SelectFrom(_, _, _)
SelectFrom(frame, s, k) ==
    IF k > Len(frame) THEN <<>>
    ELSE (IF frame[k].Store = s THEN <<frame[k]>> ELSE <<>>) \o SelectFrom(frame, s, k + 1)

SelectStore(frame, s) ==
    SelectFrom(frame, s, 1)

Cell73_Store ==
    /\ pc = "7.3s"
    /\ brands' = Unstack(GroupSum(SelectStore(df, store)))
    /\ pc' = "done"
    /\ UNCHANGED <<nb, exec, submits, platformVars, localVars, file, df, week>>

\* download_predictions has returned the directory of a finished
\* forecasting_output; parallel_run_step.txt is any file of the format.
InitFrame ==
    /\ pc = "7.2"
    /\ nb = Empty
    /\ exec = 1
    /\ submits = 0
    /\ datastores = InitDatastores
    /\ runs = <<>>
    /\ blobs = Empty
    /\ localDirs = Empty
    /\ clock = 0
    /\ dlArg = 0
    /\ dlState = NoVal
    /\ file \in Files
    /\ df = NoVal
    /\ week = NoVal
    /\ brands = NoVal

NextFrame ==
    \/ Cell72_ReadCsv
    \/ Cell73_Week
    \/ Cell73_Store

SpecFrame == InitFrame /\ [][NextFrame]_vars

(* ============================== claims ================================ *)

StepNamed(r, name) == {i \in Steps(r) : runs[r].steps[i].name = name}

\* C1: every submitted pipeline has exactly the two steps
\* 'many-models-forecasting' and 'copy_predictions'; the copy step takes as
\* input the PipelineData 'forecasting_output' that the forecasting step
\* outputs; and in every state the copy step has left "NotStarted" only if the
\* forecasting step is "Finished" (it never runs before or beside it).
CopyStartsAfterForecasting ==
    \A r \in 1 .. Len(runs) :
        /\ Len(runs[r].steps) = 2
        /\ Cardinality(StepNamed(r, "many-models-forecasting")) = 1
        /\ Cardinality(StepNamed(r, "copy_predictions")) = 1
        /\ \A f \in StepNamed(r, "many-models-forecasting") :
           \A c \in StepNamed(r, "copy_predictions") :
              /\ runs[r].steps[f].output.name = "forecasting_output"
              /\ runs[r].steps[f].output.kind = "PipelineData"
              /\ runs[r].steps[f].output \in runs[r].steps[c].inputs
              /\ runs[r].state[c] # "NotStarted" => runs[r].state[f] = "Finished"

\* C1 witness: a copy step is running.
CopyStepRunning ==
    \E r \in 1 .. Len(runs) : \E c \in StepNamed(r, "copy_predictions") :
        runs[r].state[c] = "Running"

\* C2: download_predictions(run, 'output') is called only once the run that
\* experiment.submit returned has completed.
DownloadOnlyAfterRunCompleted ==
    dlArg # 0 => dlState = "Finished"

\* C4: the copy step's destination is the datastore 'predictions' on the
\* container 'predictions', its source is 'forecasting_output' on the
\* workspace's default datastore, the two containers differ, and once the run
\* has finished the predictions are complete in both containers.
CopyToSeparateContainer ==
    \A r \in 1 .. Len(runs) : \A c \in StepNamed(r, "copy_predictions") :
        LET step == runs[r].steps[c]
        IN  /\ step.dst.datastore = "predictions"
            /\ "predictions" \in DOMAIN datastores
            /\ Container(step.dst) = "predictions"
            /\ step.src.name = "forecasting_output"
            /\ step.src.datastore = DefaultDatastore
            /\ Container(step.src) # Container(step.dst)
            /\ RunFinished(r) =>
                 /\ Content(OutputLoc(r, step.src)) = "complete"
                 /\ \E l \in DOMAIN blobs :
                      l.container = Container(step.dst) /\ l.run = r /\ blobs[l] = "complete"

\* C4 witness: a run has finished both steps.
SomeRunFinished ==
    \E r \in 1 .. Len(runs) : RunFinished(r)

\* C5 as stated: nothing outside the platform survives an execution, so every
\* execution starts with an empty local directory.
NoLocalStateSurvives ==
    pc = "1.0" => DOMAIN localDirs = {}

\* C5 as amended: the local download directory is the notebook's state outside
\* the platform: only download_predictions (cell 7.1) changes it, and every
\* entry it holds stays, with its modification time, through every later step
\* and execution.
LocalDirectoryKept ==
    [][/\ localDirs' # localDirs => pc = "7.1"
       /\ \A e \in DOMAIN localDirs :
             e \in DOMAIN localDirs' /\ localDirs'[e].mtime = localDirs[e].mtime]_vars

\* C5 witness: a second execution starts on the entries the first one left,
\* and downloads its own run beside them.
LaterExecutionSeesEntries ==
    /\ exec = 2
    /\ pc = "7.2"
    /\ Cardinality(DOMAIN localDirs) = 2

ReturnsPathOfRunPassed ==
    (dlArg # 0 /\ Defined("file_path")) => nb["file_path"] = PathOf(dlArg)

\* The calendar date a WeekStarting text falls on.
CalendarDate(text) ==
    IF text = "1992-10-01" THEN 19921001 ELSE 19921008

\* C3: once read_csv has run, the dataframe has one row per line of the file,
\* the first line included, and row i holds the four fields of line i in the
\* order WeekStarting, Predictions, Store, Brand, WeekStarting being the
\* calendar date of the first field.
EveryLineIsOneRow ==
    pc \in {"7.3", "7.3s", "done"} =>
        /\ Len(df) = Len(file)
        /\ \A i \in 1 .. Len(file) :
              /\ Len(file[i]) = 7
              /\ df[i].WeekStarting = CalendarDate(file[i][1])
              /\ df[i].Predictions = ToNumber(file[i][3])
              /\ df[i].Store = file[i][5]
              /\ df[i].Brand = file[i][7]

\* C3 witness: a file of several lines whose first line differs from the
\* second and carries a time of day has been read.
SeveralLinesRead ==
    /\ pc = "7.3"
    /\ Len(file) >= 2
    /\ file[1] # file[2]
    /\ file[1][1] = "1992-10-08T12:00"
    /\ df[1].WeekStarting = 19921008

\* The sum of Predictions over the rows of frame whose index is in rows.
RECURSIVE SumOver(_, _)
SumOver(frame, rows) ==
    IF rows = {} THEN 0
    ELSE LET i == CHOOSE j \in rows : TRUE
         IN  frame[i].Predictions + SumOver(frame, rows \ {i})

RowsOf(w, b) ==
    {i \in 1 .. Len(df) : df[i].WeekStarting = w /\ df[i].Brand = b}

StoreRowsOf(w, b) == {i \in RowsOf(w, b) : df[i].Store = "Store1001"}

\* C8 as stated: both tables have one row per distinct week and one column
\* per distinct brand (of all rows, of the rows of Store1001), and every cell
\* is the sum of Predictions over the rows of its week and brand.
EveryCellIsTheSum ==
    pc = "done" =>
        /\ week.index = {df[i].WeekStarting : i \in 1 .. Len(df)}
        /\ week.columns = {df[i].Brand : i \in 1 .. Len(df)}
        /\ \A w \in week.index, b \in week.columns :
              week.cell[<<w, b>>] = Value(SumOver(df, RowsOf(w, b)))
        /\ \A w \in brands.index, b \in brands.columns :
              brands.cell[<<w, b>>] = Value(SumOver(df, StoreRowsOf(w, b)))

\* C8 as amended: a cell whose week and brand have at least one row is the
\* sum of Predictions over those rows, a cell whose week and brand have no row
\* is NaN; the store table is the same over exactly the rows of Store1001; and
\* every cell of the store table that is not NaN is a part of the total
\* table's cell, which is that cell plus the sum over the other stores' rows.
EveryCellIsTheSumOrNaN ==
    pc = "done" =>
        /\ week.index = {df[i].WeekStarting : i \in 1 .. Len(df)}
        /\ week.columns = {df[i].Brand : i \in 1 .. Len(df)}
        /\ \A w \in week.index, b \in week.columns :
              week.cell[<<w, b>>] =
                 IF RowsOf(w, b) = {} THEN NaN ELSE Value(SumOver(df, RowsOf(w, b)))
        /\ brands.index =
              {df[i].WeekStarting : i \in {j \in 1 .. Len(df) : df[j].Store = "Store1001"}}
        /\ brands.columns =
              {df[i].Brand : i \in {j \in 1 .. Len(df) : df[j].Store = "Store1001"}}
        /\ \A w \in brands.index, b \in brands.columns :
              /\ brands.cell[<<w, b>>] =
                    IF StoreRowsOf(w, b) = {} THEN NaN
                    ELSE Value(SumOver(df, StoreRowsOf(w, b)))
              /\ ~brands.cell[<<w, b>>].nan =>
                    /\ w \in week.index /\ b \in week.columns
                    /\ ~week.cell[<<w, b>>].nan
                    /\ week.cell[<<w, b>>].v =
                          brands.cell[<<w, b>>].v
                          + SumOver(df, RowsOf(w, b) \ StoreRowsOf(w, b))

\* C8 witness: the tables of a file in which another store adds to a cell of
\* Store1001 and in which one combination of week and brand has no row.
TablesWithPartAndGap ==
    /\ pc = "done"
    /\ \E w \in brands.index, b \in brands.columns :
          /\ ~brands.cell[<<w, b>>].nan
          /\ week.cell[<<w, b>>].v # brands.cell[<<w, b>>].v
    /\ \E w \in week.index, b \in week.columns : week.cell[<<w, b>>].nan

====
